---- MODULE Spec2Model ----
(* A model of rack.py: a per-project archive store (`.rack/store`) with an     *)
(* index file (`index.json`) and one directory per commit.  Strings are        *)
(* sequences of one-character strings so that concatenation, suffix tests,     *)
(* slicing and glob matching are computed as the code computes them.           *)
EXTENDS Integers, Sequences, FiniteSets, TLC

VARIABLES
  index,    \* parsed content of .rack/store/index.json: fingerprint -> entry
  indexOk,  \* FALSE when index.json was truncated by a failed write
  store,    \* directories under .rack/store: name -> (relative path -> content)
  logs,     \* the files of the input directory: relative path -> content
  out,      \* the directory named by -o of the dump that runs or ran last: a
            \* new directory each time, which no later command reads
  op,       \* the running command (its locals) or, when it is done, its outcome
  origin,   \* history: what the successful store behind each directory included
  failed    \* history: how many commands failed or were interrupted in their work

vars == <<index, indexOk, store, logs, out, op, origin, failed>>

(* ------------------------------ bounds ----------------------------------- *)
\* directories under the store root, in the specification of all commands
MaxCommits == 2
\* files of the input directory, and directories under the store root, in the
\* specification of store and dump over every source tree and configuration
MaxFiles == 2
MaxStored == 1
\* hashes given to one burn
MaxBurn == 2
\* commands that fail or are interrupted in their work, in one behaviour
MaxFailed == 1

(* ------------------------------ strings ---------------------------------- *)
Ord(c) ==
  CASE c = "." -> 46 [] c = "/" -> 47 [] c = "1" -> 49 [] c = "2" -> 50
    [] c = "=" -> 61 [] c = "a" -> 97 [] c = "b" -> 98 [] c = "c" -> 99
    [] c = "|" -> 124 [] OTHER -> 110

RECURSIVE StrLess(_, _)
StrLess(a, b) ==
  IF b = <<>> THEN FALSE
  ELSE IF a = <<>> THEN TRUE
  ELSE IF Head(a) = Head(b) THEN StrLess(Tail(a), Tail(b))
  ELSE Ord(Head(a)) < Ord(Head(b))

EndsWith(s, suf) ==
  /\ Len(s) >= Len(suf)
  /\ SubSeq(s, Len(s) - Len(suf) + 1, Len(s)) = suf

\* s[:-n]
DropLast(s, n) == SubSeq(s, 1, Len(s) - n)

RECURSIVE LastSlash(_, _)
LastSlash(s, i) ==
  IF i = 0 THEN 0 ELSE IF s[i] = "/" THEN i ELSE LastSlash(s, i - 1)

\* os.path.basename: the fname that os.walk yields for a relative path
BaseName(rel) == SubSeq(rel, LastSlash(rel, Len(rel)) + 1, Len(rel))

\* number of directories above a relative path
RECURSIVE Depth(_)
Depth(rel) ==
  IF rel = <<>> THEN 0 ELSE (IF Head(rel) = "/" THEN 1 ELSE 0) + Depth(Tail(rel))

ZstExt == <<".", "z", "s", "t">>
TarName == <<"l", "o", "g", "s", ".", "t", "a", "r">>
TarZstName == TarName \o ZstExt

\* fnmatch.fnmatch(name, pat) for patterns made of literals, "*" and "?"
RECURSIVE fnmatch(_, _)
fnmatch(name, pat) ==
  IF pat = <<>> THEN name = <<>>
  ELSE IF Head(pat) = "*"
    THEN fnmatch(name, Tail(pat)) \/ (name # <<>> /\ fnmatch(Tail(name), pat))
  ELSE IF name = <<>> THEN FALSE
  ELSE (Head(pat) = "?" \/ Head(pat) = Head(name)) /\ fnmatch(Tail(name), Tail(pat))

(* ------------------------------ hash_commit ------------------------------ *)
EmptyMap == [x \in {} |-> <<>>]

RECURSIVE SortedKeys(_)
SortedKeys(ks) ==
  IF ks = {} THEN <<>>
  ELSE LET m == CHOOSE k \in ks : \A o \in ks : o = k \/ StrLess(k, o)
       IN <<m>> \o SortedKeys(ks \ {m})

RECURSIVE JoinItems(_, _)
JoinItems(ks, tags) ==
  IF ks = <<>> THEN <<>>
  ELSE Head(ks) \o <<"=">> \o tags[Head(ks)]
       \o (IF Len(ks) > 1 THEN <<"|">> \o JoinItems(Tail(ks), tags) ELSE <<>>)

\* the string that is hashed
CommitKey(msg, tags) == msg \o <<"|">> \o JoinItems(SortedKeys(DOMAIN tags), tags)

\* sha256(key)[:12]: the digest is taken to be collision free on the keys used,
\* so a fingerprint is represented by the key it digests
hash_commit(msg, tags) == CommitKey(msg, tags)

\* a dict as the list of its (key, value) items in insertion order
ItemKeys(items) == {items[i][1] : i \in 1..Len(items)}
AsMap(items) ==
  [k \in ItemKeys(items) |-> items[CHOOSE i \in 1..Len(items) : items[i][1] = k][2]]

\* the order of tuples of strings
ItemLess(x, y) == StrLess(x[1], y[1]) \/ (x[1] = y[1] /\ StrLess(x[2], y[2]))

\* the items are joined as they come (a bug the code does not have)
UnsortedItems(items) == items

\* sorted(tags.items())
RECURSIVE SortedItems(_)
SortedItems(items) ==
  IF items = <<>> THEN <<>>
  ELSE LET m == CHOOSE i \in 1..Len(items) :
                  \A j \in 1..Len(items) : j = i \/ ItemLess(items[i], items[j])
       IN <<items[m]>> \o SortedItems(SubSeq(items, 1, m - 1) \o SubSeq(items, m + 1, Len(items)))

\* "|".join(f"{k}={v}" for k, v in ...)
RECURSIVE JoinPairs(_)
JoinPairs(items) ==
  IF items = <<>> THEN <<>>
  ELSE Head(items)[1] \o <<"=">> \o Head(items)[2]
       \o (IF Len(items) > 1 THEN <<"|">> \o JoinPairs(Tail(items)) ELSE <<>>)

\* hash_commit on a dict given by its items in insertion order
hash_items(msg, items) == msg \o <<"|">> \o JoinPairs(SortedItems(items))

\* the old value wins on a key of both (a bug the code does not have)
MergeOldWins(a, b) == [k \in DOMAIN a \cup DOMAIN b |-> IF k \in DOMAIN a THEN a[k] ELSE b[k]]

\* {**a, **b}
Merge(a, b) == [k \in DOMAIN a \cup DOMAIN b |-> IF k \in DOMAIN b THEN b[k] ELSE a[k]]

(* ------------------------------ file contents ---------------------------- *)
\* A file's content: `z` zstd frames around either raw bytes `data` or a tar
\* archive with `members`.
Raw(d) == [z |-> 0, tar |-> FALSE, data |-> d, members |-> <<>>]
EmptyFile == Raw("")
EmptyTar == [z |-> 0, tar |-> TRUE, data |-> "", members |-> <<>>]

\* ZstdCompressor.compress
Compress(c) == [c EXCEPT !.z = @ + 1]
\* ZstdDecompressor.decompress raises on input that is not a zstd frame
CanDecompress(c) == c.z > 0
Decompress(c) == [c EXCEPT !.z = @ - 1]

\* tarfile.add
TarAdd(t, arcname, c) == [t EXCEPT !.members = Append(@, [name |-> arcname, file |-> c])]
\* tarfile.open(..., "r") raises ReadError unless the file is a tar archive
IsTar(c) == c.z = 0 /\ c.tar

Bytes(d) ==
  CASE d = "" -> 0 [] d = "hello" -> 5 [] d = "world" -> 5 [] d = "bye" -> 3
    [] d = "junk" -> 4 [] d = "scratch" -> 7 [] OTHER -> 1

\* os.path.getsize: raw bytes, a block per archive header, a header per frame
RECURSIVE GetSize(_)
RECURSIVE MembersSize(_)
MembersSize(ms) ==
  IF ms = <<>> THEN 0 ELSE 1 + GetSize(Head(ms).file) + MembersSize(Tail(ms))

GetSize(c) == c.z + (IF c.tar THEN MembersSize(c.members) ELSE Bytes(c.data))

(* ------------------------------ directory trees -------------------------- *)
EmptyTree == [p \in {} |-> EmptyFile]
Put(tree, p, c) == [q \in DOMAIN tree \cup {p} |-> IF q = p THEN c ELSE tree[q]]
Remove(tree, ps) == [q \in DOMAIN tree \ ps |-> tree[q]]

\* os.walk is top-down: the files of a directory are yielded before those of
\* its subdirectories, in no particular order within a directory
NextFiles(todo) == {f \in todo : \A g \in todo : Depth(f) <= Depth(g)}

(* ------------------------------ inputs ----------------------------------- *)
PathA == <<"a", ".", "t", "x", "t">>
PathSubB == <<"s", "u", "b", "/", "b", ".", "t", "x", "t">>
PathB == <<"b", ".", "t", "x", "t">>
PathTmp == <<"x", ".", "t", "m", "p">>
Paths == {PathA, PathSubB, PathB, TarName, PathTmp}

\* what each source file holds
DataOf(p) ==
  CASE p = PathA -> "hello" [] p = PathSubB -> "world" [] p = PathB -> "bye"
    [] p = TarName -> "junk" [] OTHER -> "scratch"

SourceTree(ps) == [p \in ps |-> Raw(DataOf(p))]
SourceTrees == {SourceTree(ps) : ps \in {q \in SUBSET Paths : Cardinality(q) <= MaxFiles}}

LabelA == <<"a">>
KeyB == <<"b">>
KeyC == <<"c">>
One == <<"1">>
Two == <<"2">>
TagB1 == [k \in {KeyB} |-> One]
TagC2 == [k \in {KeyC} |-> Two]
TagB2 == [k \in {KeyB} |-> Two]
\* tag dicts by insertion order: every list of items with distinct keys
KeyBC == <<"b", "c">>
\* a value and a label that hold the separators of the hashed string
OneBarC2 == <<"1", "|", "c", "=", "2">>
LabelAB1 == <<"a", "|", "b", "=", "1">>
TagItems == {KeyB, KeyBC, KeyC} \X {One, Two, OneBarC2}
ItemLists ==
  {l \in UNION {[1..n -> TagItems] : n \in 0..3} :
     \A i, j \in 1..Len(l) : l[i][1] = l[j][1] => i = j}
\* the same items in another insertion order
Reordered(l) == {m \in ItemLists : Len(m) = Len(l) /\ AsMap(m) = AsMap(l)}
LabelB == <<"b">>
HashLabels == {LabelA, LabelB, LabelAB1}
\* a hash that no commit has
NoSuchHash == <<"0">>

\* DEFAULT_CONFIG
DefaultExclude ==
  << <<"*", ".", "t", "m", "p">>, <<".", "/", "d", "e", "b", "u", "g", "/", "*">> >>
DefaultConfig ==
  [compress_mode |-> "files", preserve_structure |-> TRUE, exclude |-> DefaultExclude]
\* the rack.json files a user may write
Configs ==
  [compress_mode : {"files", "folder", "zip"},
   preserve_structure : BOOLEAN,
   exclude : {DefaultExclude, <<>>}]

\* the inputs of the specification of all commands, and of the specification of
\* store and dump over every source tree and configuration
AllCommands ==
  [labels |-> {LabelA}, storeTags |-> {EmptyMap, TagC2},
   addTags |-> {TagB1, TagC2}, outdirs |-> {"out"}, sources |-> {"logs"},
   configs |-> {DefaultConfig, [DefaultConfig EXCEPT !.compress_mode = "folder"],
                [DefaultConfig EXCEPT !.compress_mode = "zip"]},
   cap |-> MaxCommits]
AllFiles ==
  [labels |-> {LabelA}, storeTags |-> {EmptyMap}, addTags |-> {TagB1}, outdirs |-> {"out"},
   sources |-> {"logs"}, configs |-> Configs, cap |-> MaxStored]
\* the inputs of the specification of retags: tags that add a key, replace a
\* value and repeat a pair
AllTags ==
  [labels |-> {LabelA}, storeTags |-> {EmptyMap, TagB1},
   addTags |-> {TagB1, TagB2, TagC2}, outdirs |-> {"out"}, sources |-> {"logs"},
   configs |-> {DefaultConfig, [DefaultConfig EXCEPT !.compress_mode = "folder"]},
   cap |-> MaxStored]
\* the inputs of the specification of the source directories: the configured
\* input directory, and the project root given with -p
AllSources ==
  [labels |-> {LabelA}, storeTags |-> {EmptyMap}, addTags |-> {TagB1}, outdirs |-> {"out"},
   sources |-> {"logs", "."},
   configs |-> {DefaultConfig, [DefaultConfig EXCEPT !.compress_mode = "folder"]},
   cap |-> MaxStored]

(* ------------------------------ state ------------------------------------ *)
NoOrigin == [files |-> EmptyTree, mode |-> "none", preserve |-> FALSE]
NoDir == [exists |-> FALSE, files |-> EmptyTree]

Idle ==
  [pc |-> "idle", cmd |-> "none", result |-> "none", warn |-> FALSE,
   fp |-> <<>>, newfp |-> <<>>, target |-> "none", remove |-> FALSE, src |-> "logs",
   items |-> <<>>, asked |-> {}, branch |-> "none",
   cfg |-> DefaultConfig, msg |-> <<>>, tags |-> EmptyMap, new_tags |-> EmptyMap,
   mem |-> EmptyMap,
   todo |-> {}, members |-> <<>>, count |-> 0, total |-> 0, want |-> NoOrigin]

\* the command returned (or exited): only its outcome is kept
Finished(o, result, warn) ==
  [Idle EXCEPT !.pc = "done", !.cmd = o.cmd, !.fp = o.fp, !.newfp = o.newfp, !.target = o.target,
               !.want = o.want, !.new_tags = o.new_tags, !.remove = o.remove,
               !.asked = o.asked, !.branch = o.branch,
               !.result = result, !.warn = warn]

\* a command that exits before it has changed anything
Refused(cmd, fp, result) ==
  /\ op' = [Idle EXCEPT !.pc = "done", !.cmd = cmd, !.fp = fp, !.result = result]
  /\ UNCHANGED <<index, indexOk, store, logs, out, origin, failed>>

\* back at the shell prompt: the next command starts from the files on disk
Return ==
  /\ op.pc = "done"
  /\ op' = Idle
  /\ out' = NoDir
  /\ UNCHANGED <<index, indexOk, store, logs, origin, failed>>

InitWith(trees) ==
  /\ index = EmptyMap
  /\ indexOk = TRUE
  /\ store = EmptyMap
  /\ logs \in trees
  /\ out = NoDir
  /\ op = Idle
  /\ origin = EmptyMap
  /\ failed = 0

\* json.dump into index.json opened with "w": written, not opened, or truncated
SaveOutcomes == {"written", "unwritten", "truncated"}
save_index(idx, outcome) ==
  /\ index' = IF outcome = "written" THEN idx
              ELSE IF outcome = "truncated" THEN EmptyMap ELSE index
  /\ indexOk' = IF outcome = "written" THEN TRUE
                ELSE IF outcome = "truncated" THEN FALSE ELSE indexOk

\* index[commit_hash] = {...}
WithEntry(idx, fp, e) == [k \in DOMAIN idx \cup {fp} |-> IF k = fp THEN e ELSE idx[k]]
\* the entry is not removed (a bug the code does not have)
WithoutEntryKept(idx, fp) == idx

\* index.pop(h, None) / del index[h]
WithoutEntry(idx, fp) == [k \in DOMAIN idx \ {fp} |-> idx[k]]
\* shutil.rmtree(commit_dir)
WithoutDir(st, d) == [k \in DOMAIN st \ {d} |-> st[k]]

\* hashes a user may type: those of the store, and one that is nowhere
HashArgs == DOMAIN index \cup DOMAIN store \cup {NoSuchHash}

(* ------------------------------ store ------------------------------------ *)
\* paths below the project root
LogsPrefix == <<"l", "o", "g", "s", "/">>
RackJson == <<".", "r", "a", "c", "k", "/", "r", "a", "c", "k", ".", "j", "s", "o", "n">>
StorePrefix == <<".", "r", "a", "c", "k", "/", "s", "t", "o", "r", "e", "/">>
IndexJson == StorePrefix \o <<"i", "n", "d", "e", "x", ".", "j", "s", "o", "n">>

\* the files below the project root, by path relative to it: those of the input
\* directory, rack.json, index.json and the files of the commit directories
RootFiles ==
  {<<LogsPrefix \o f, logs[f]>> : f \in DOMAIN logs}
  \cup {<<RackJson, Raw("config")>>, <<IndexJson, Raw(IF indexOk THEN "index" ELSE "junk")>>}
  \cup UNION {{<<StorePrefix \o d \o <<"/">> \o q, store[d][q]>> : q \in DOMAIN store[d]} :
              d \in DOMAIN store}
RootTree == [p \in {e[1] : e \in RootFiles} |-> (CHOOSE e \in RootFiles : e[1] = p)[2]]

\* logs_dir: cfg["input_dir"] below the root, or the override path (here ".")
SourceOf(src) == IF src = "logs" THEN logs ELSE RootTree

\* the exclusion test of the file walk
Excluded(rel, exclude) == \E i \in 1..Len(exclude) : fnmatch(rel, exclude[i])

\* files = [...]: the files of logs_dir that no exclude pattern matches
GatherFiles(tree, exclude) == {rel \in DOMAIN tree : ~Excluded(rel, exclude)}

\* dst of the per-file branch, relative to commit_dir
FileDst(rel, cfg) == (IF cfg.preserve_structure THEN rel ELSE BaseName(rel)) \o ZstExt

\* arcname of the folder branch
ArcName(rel, cfg) == IF cfg.preserve_structure THEN rel ELSE BaseName(rel)

\* os.makedirs(commit_dir, exist_ok=True)
MakeCommitDir(st, fp) ==
  IF fp \in DOMAIN st THEN st
  ELSE [d \in DOMAIN st \cup {fp} |-> IF d = fp THEN EmptyTree ELSE st[d]]

\* the duplicate test is missing (a bug the code does not have)
IsDuplicateNever(commit_hash, idx) == FALSE

\* if commit_hash in index
IsDuplicate(commit_hash, idx) == commit_hash \in DOMAIN idx

\* the loop over `files` ends too early (a bug the code does not have)
AfterLoopEarly(todo, mode) == IF mode = "folder" THEN "store_tar" ELSE "store_save"

\* the pc after the loop over `files`
AfterLoop(todo, mode) ==
  IF todo # {} THEN "store_loop" ELSE IF mode = "folder" THEN "store_tar" ELSE "store_save"

\* the locals of store() when it enters its loop
StoreLocals(commit_hash, msg, tags, remove, cfg, src, files) ==
  [Idle EXCEPT !.pc = AfterLoop(files, cfg.compress_mode), !.cmd = "store",
               !.fp = commit_hash, !.msg = msg, !.tags = tags, !.remove = remove,
               !.cfg = cfg, !.src = src, !.mem = index, !.todo = files, !.count = Cardinality(files)]

\* rack store: from the call to the first file of the loop
StoreBegin(msg, tags, remove, cfg, src, cap) ==
  LET commit_hash == hash_commit(msg, tags)
      files == GatherFiles(SourceOf(src), cfg.exclude)
  IN
  /\ op.pc = "idle"
  /\ \/ commit_hash \in DOMAIN index \cup DOMAIN store
     \/ Cardinality(DOMAIN index \cup DOMAIN store) < cap
  /\ IF ~indexOk THEN Refused("store", commit_hash, "IndexUnreadable")
     ELSE IF IsDuplicate(commit_hash, index)
       THEN Refused("store", commit_hash, "DuplicateCommit")
     ELSE IF cfg.compress_mode = "folder" THEN
       /\ store' = [MakeCommitDir(store, commit_hash) EXCEPT
                      ![commit_hash] = Put(@, TarName, EmptyTar)]
       /\ op' = StoreLocals(commit_hash, msg, tags, remove, cfg, src, files)
       /\ UNCHANGED <<index, indexOk, logs, out, origin, failed>>
     ELSE IF cfg.compress_mode = "files" THEN
       /\ store' = MakeCommitDir(store, commit_hash)
       /\ op' = StoreLocals(commit_hash, msg, tags, remove, cfg, src, files)
       /\ UNCHANGED <<index, indexOk, logs, out, origin, failed>>
     ELSE
       /\ store' = MakeCommitDir(store, commit_hash)
       /\ op' = [Idle EXCEPT !.pc = "done", !.cmd = "store", !.fp = commit_hash,
                   !.result = "ConfigError"]
       /\ failed < MaxFailed
       /\ failed' = failed + 1
       /\ UNCHANGED <<index, indexOk, logs, out, origin>>

\* one iteration of the per-file loop: compress_file and the size total
StoreCompress(f) ==
  /\ op.pc = "store_loop"
  /\ op.cfg.compress_mode = "files"
  /\ f \in NextFiles(op.todo)
  /\ LET z == Compress(SourceOf(op.src)[f])
     IN /\ store' = [store EXCEPT ![op.fp] = Put(@, FileDst(f, op.cfg), z)]
        /\ op' = [op EXCEPT !.todo = @ \ {f}, !.total = @ + GetSize(z),
                    !.pc = AfterLoop(op.todo \ {f}, "files")]
  /\ UNCHANGED <<index, indexOk, logs, out, origin, failed>>

\* one iteration of the packing loop: tar.add
StorePack(f) ==
  /\ op.pc = "store_loop"
  /\ op.cfg.compress_mode = "folder"
  /\ f \in NextFiles(op.todo)
  /\ store' = [store EXCEPT ![op.fp][TarName] = TarAdd(@, ArcName(f, op.cfg), SourceOf(op.src)[f])]
  /\ op' = [op EXCEPT !.todo = @ \ {f}, !.pc = AfterLoop(op.todo \ {f}, "folder")]
  /\ UNCHANGED <<index, indexOk, logs, out, origin, failed>>

\* compress logs.tar into logs.tar.zst, take its size, remove logs.tar
StoreTarCompress ==
  /\ op.pc = "store_tar"
  /\ LET z == Compress(store[op.fp][TarName])
     IN /\ store' = [store EXCEPT ![op.fp] = Remove(Put(@, TarZstName, z), {TarName})]
        /\ op' = [op EXCEPT !.total = GetSize(z), !.pc = "store_save"]
  /\ UNCHANGED <<index, indexOk, logs, out, origin, failed>>

\* the index entry of the new commit
NewEntry(o, now) ==
  [msg |-> o.msg, date |-> now, size_bytes |-> o.total, files |-> o.count,
   path |-> o.fp, input_dir |-> "logs", tags |-> o.tags]

\* what this store included, by relative path
Included(o) ==
  [files |-> [f \in GatherFiles(SourceOf(o.src), o.cfg.exclude) |-> SourceOf(o.src)[f]],
   mode |-> o.cfg.compress_mode, preserve |-> o.cfg.preserve_structure]

\* datetime.now(): a commit is stamped later than those of the index
Now(idx) == Cardinality(DOMAIN idx) + 1

\* build the entry, save_index, report; then the -rm branch if asked for
StoreSave ==
  /\ op.pc = "store_save"
  /\ save_index(WithEntry(op.mem, op.fp, NewEntry(op, Now(op.mem))), "written")
  /\ origin' = WithEntry(origin, op.fp, Included(op))
  /\ op' = IF op.remove THEN [op EXCEPT !.pc = "store_clear"] ELSE Finished(op, "ok", FALSE)
  /\ UNCHANGED <<store, logs, out, failed>>

\* -rm: remove the contents of logs_dir, keep the folder; a failure is a warning.
\* The contents of the project root are the input directory and .rack, which
\* holds rack.json, index.json and the commit directories.
StoreClear(left) ==
  /\ op.pc = "store_clear"
  /\ left \subseteq DOMAIN logs
  /\ logs' = Remove(logs, DOMAIN logs \ left)
  /\ op' = Finished(op, "ok", left # {})
  /\ IF op.src = "logs" \/ left # {}
     THEN UNCHANGED <<index, indexOk, store, origin>>
     ELSE /\ index' = EmptyMap /\ indexOk' = FALSE
          /\ store' = EmptyMap /\ origin' = EmptyMap
  /\ UNCHANGED <<out, failed>>

\* an I/O error or Ctrl-C inside store: the exception leaves store() at once.
\* `partial`: the file being written was created but not filled.
StoreFault(kind, partial) ==
  /\ op.pc \in {"store_loop", "store_tar", "store_save"}
  /\ \/ /\ op.pc = "store_loop" /\ op.cfg.compress_mode = "files"
        /\ IF partial
           THEN \E f \in NextFiles(op.todo) :
                  store' = [store EXCEPT ![op.fp] = Put(@, FileDst(f, op.cfg), EmptyFile)]
           ELSE UNCHANGED store
        /\ UNCHANGED <<index, indexOk>>
     \/ /\ op.pc = "store_loop" /\ op.cfg.compress_mode = "folder"
        /\ ~partial
        /\ UNCHANGED <<index, indexOk, store>>
     \/ /\ op.pc = "store_tar"
        /\ store' = IF partial THEN [store EXCEPT ![op.fp] = Put(@, TarZstName, EmptyFile)]
                    ELSE store
        /\ UNCHANGED <<index, indexOk>>
     \/ /\ op.pc = "store_save"
        /\ save_index(index, IF partial THEN "truncated" ELSE "unwritten")
        /\ UNCHANGED store
  /\ op' = Finished(op, kind, FALSE)
  /\ failed < MaxFailed
  /\ failed' = failed + 1
  /\ UNCHANGED <<logs, out, origin>>

Store(S) ==
  \/ /\ op.pc = "idle"
     /\ \E msg \in S.labels, tags \in S.storeTags, remove \in BOOLEAN, cfg \in S.configs,
           src \in S.sources :
          StoreBegin(msg, tags, remove, cfg, src, S.cap)
  \/ \E f \in op.todo : StoreCompress(f)
  \/ \E f \in op.todo : StorePack(f)
  \/ StoreTarCompress
  \/ StoreSave
  \/ /\ op.pc = "store_clear"
     /\ \E left \in {{}, DOMAIN logs} : StoreClear(left)
  \/ /\ op.cmd = "store"
     /\ \E kind \in {"IOFailure", "UserAborted"}, partial \in BOOLEAN : StoreFault(kind, partial)


(* ------------------------------ dump ------------------------------------- *)
\* the walk collects nothing (a bug the code does not have)
ZstFilesNone(dir) == {}

\* the .zst files that the walk of commit_dir collects
ZstFiles(dir) == {p \in DOMAIN dir : EndsWith(BaseName(p), ZstExt)}

\* a file written under outdir
WriteTarget(target, p, c) ==
  IF target = "logs" THEN logs' = Put(logs, p, c) /\ UNCHANGED out
  ELSE out' = [out EXCEPT !.files = Put(@, p, c)] /\ UNCHANGED logs

\* the end of the extraction loop: the report, and the -rm branch if asked for
AfterDump(o) == IF o.remove THEN [o EXCEPT !.pc = "dump_purge"] ELSE Finished(o, "ok", FALSE)

\* a missing directory is reported as a missing commit (a bug the code does not have)
DumpLookupOneError(commit_hash, idx, st) ==
  IF commit_hash \in DOMAIN idx /\ commit_hash \in DOMAIN st THEN "found" ELSE "NotFound"

\* if commit_hash not in index / if not os.path.isdir(commit_dir)
DumpLookup(commit_hash, idx, st) ==
  IF commit_hash \notin DOMAIN idx THEN "NotFound"
  ELSE IF commit_hash \notin DOMAIN st THEN "StorageMissing"
  ELSE "found"

\* rack dump: the lookups, outdir, the probe for logs.tar.zst, the member list.
\* outdir is "logs" (the recorded input_dir, when -o is absent) or "out".
DumpBegin(commit_hash, outdir, remove) ==
  /\ op.pc = "idle"
  /\ IF ~indexOk THEN Refused("dump", commit_hash, "IndexUnreadable")
     ELSE IF DumpLookup(commit_hash, index, store) # "found"
       THEN Refused("dump", commit_hash, DumpLookup(commit_hash, index, store))
     ELSE
       LET dir == store[commit_hash]
           o == [Idle EXCEPT !.cmd = "dump", !.fp = commit_hash, !.target = outdir,
                   !.remove = remove, !.mem = index,
                   !.branch = IF TarZstName \in DOMAIN dir THEN "folder" ELSE "files",
                   !.want = IF commit_hash \in DOMAIN origin THEN origin[commit_hash]
                            ELSE NoOrigin]
       IN
       /\ out' = IF outdir = "out" THEN [exists |-> TRUE, files |-> EmptyTree] ELSE out
       /\ IF TarZstName \in DOMAIN dir THEN
            IF CanDecompress(dir[TarZstName]) /\ IsTar(Decompress(dir[TarZstName]))
            THEN LET ms == Decompress(dir[TarZstName]).members
                 IN op' = IF ms = <<>> THEN AfterDump(o)
                          ELSE [o EXCEPT !.pc = "dump_tar", !.members = ms]
            ELSE op' = Finished(o, "ReadError", FALSE)
          ELSE
            op' = IF ZstFiles(dir) = {} THEN AfterDump(o)
                  ELSE [o EXCEPT !.pc = "dump_files", !.todo = ZstFiles(dir)]
       /\ UNCHANGED <<index, indexOk, store, logs, origin, failed>>

\* one iteration of the folder-mode loop: tar.extract
DumpExtract ==
  /\ op.pc = "dump_tar"
  /\ WriteTarget(op.target, Head(op.members).name, Head(op.members).file)
  /\ op' = IF Len(op.members) = 1 THEN AfterDump(op) ELSE [op EXCEPT !.members = Tail(@)]
  /\ UNCHANGED <<index, indexOk, store, origin, failed>>

\* one iteration of the files-mode loop: decompress_file into rel[:-4]
DumpDecompress(src) ==
  /\ op.pc = "dump_files"
  /\ src \in NextFiles(op.todo)
  /\ IF CanDecompress(store[op.fp][src])
     THEN /\ WriteTarget(op.target, DropLast(src, 4), Decompress(store[op.fp][src]))
          /\ op' = IF op.todo = {src} THEN AfterDump(op) ELSE [op EXCEPT !.todo = @ \ {src}]
     ELSE /\ WriteTarget(op.target, DropLast(src, 4), EmptyFile)
          /\ op' = Finished(op, "ReadError", FALSE)
  /\ UNCHANGED <<index, indexOk, store, origin, failed>>

\* -rm: rmtree(commit_dir), index.pop, save_index; an exception is a warning.
\* `left`: the files that a failing rmtree has not removed.
DumpPurge(outcome, left) ==
  /\ op.pc = "dump_purge"
  /\ IF outcome = "rmtree_failed"
     THEN /\ left \subseteq DOMAIN store[op.fp]
          /\ store' = [store EXCEPT ![op.fp] = Remove(@, DOMAIN @ \ left)]
          /\ origin' = IF left = DOMAIN store[op.fp] THEN origin ELSE WithoutEntry(origin, op.fp)
          /\ UNCHANGED <<index, indexOk>>
     ELSE /\ outcome \in SaveOutcomes
          /\ left = {}
          /\ store' = WithoutDir(store, op.fp)
          /\ origin' = WithoutEntry(origin, op.fp)
          /\ save_index(WithoutEntry(op.mem, op.fp), outcome)
  /\ op' = Finished(op, "ok", outcome # "written")
  /\ outcome = "written" \/ failed < MaxFailed
  /\ failed' = IF outcome = "written" THEN failed ELSE failed + 1
  /\ UNCHANGED <<logs, out>>

\* an I/O error or Ctrl-C inside the extraction loop; what was restored stays.
\* `partial`: the file being written was created but not filled.
DumpFault(kind, partial) ==
  /\ op.pc \in {"dump_files", "dump_tar"}
  /\ IF ~partial THEN UNCHANGED <<logs, out>>
     ELSE IF op.pc = "dump_tar" THEN WriteTarget(op.target, Head(op.members).name, EmptyFile)
     ELSE \E src \in NextFiles(op.todo) : WriteTarget(op.target, DropLast(src, 4), EmptyFile)
  /\ op' = Finished(op, kind, FALSE)
  /\ UNCHANGED <<index, indexOk, store, origin, failed>>

\* the files of a directory under the store root
DirFiles(d) == IF d \in DOMAIN store THEN DOMAIN store[d] ELSE {}

\* what a failing rmtree leaves of a directory: all of its files, or only itself
RmtreeLeaves(d) == {DirFiles(d), {}}

Dump(S) ==
  \/ /\ op.pc = "idle"
     /\ \E h \in HashArgs, outdir \in S.outdirs, remove \in BOOLEAN :
          DumpBegin(h, outdir, remove)
  \/ DumpExtract
  \/ /\ op.pc = "dump_files"
     /\ \E src \in op.todo : DumpDecompress(src)
  \/ /\ op.pc = "dump_purge"
     /\ \E outcome \in SaveOutcomes \cup {"rmtree_failed"}, left \in RmtreeLeaves(op.fp) :
          DumpPurge(outcome, left)
  \/ /\ op.cmd = "dump"
     /\ \E kind \in {"IOFailure", "UserAborted"}, partial \in BOOLEAN : DumpFault(kind, partial)

(* ------------------------------ add -------------------------------------- *)
\* shutil.move(old_dir, new_dir)
MoveDir(st, old, new) ==
  [d \in (DOMAIN st \ {old}) \cup {new} |-> IF d = new THEN st[old] ELSE st[d]]

\* the new entry keeps the old path (a bug the code does not have)
MovedEntryOldPath(old_entry, merged, new_hash) == [old_entry EXCEPT !.tags = merged]

\* new_entry: the old entry with the merged tags and the new path
MovedEntry(old_entry, merged, new_hash) ==
  [old_entry EXCEPT !.tags = merged, !.path = new_hash]

\* the collision test is missing (a bug the code does not have)
CollidesNever(new_hash, commit_hash, idx) == FALSE

\* if new_hash != commit_hash and new_hash in index
Collides(new_hash, commit_hash, idx) == new_hash # commit_hash /\ new_hash \in DOMAIN idx

\* the tag update also stamps the entry anew (a bug the code does not have)
RetaggedStamped(idx, commit_hash, new_tags) ==
  [idx EXCEPT ![commit_hash].tags = Merge(@, new_tags), ![commit_hash].date = Now(idx)]

\* index[commit_hash]["tags"].update(new_tags)
Retagged(idx, commit_hash, new_tags) ==
  [idx EXCEPT ![commit_hash].tags = Merge(@, new_tags)]

\* rack add: the lookup, the merge, the collision tests, then either the tag
\* update with its save_index, or the move of the directory
AddBegin(commit_hash, new_tags, outcome) ==
  /\ op.pc = "idle"
  /\ IF ~indexOk THEN Refused("add", commit_hash, "IndexUnreadable")
     ELSE IF commit_hash \notin DOMAIN index THEN Refused("add", commit_hash, "NotFound")
     ELSE
       LET old_entry == index[commit_hash]
           merged == Merge(old_entry.tags, new_tags)
           new_hash == hash_commit(old_entry.msg, merged)
           o == [Idle EXCEPT !.cmd = "add", !.fp = commit_hash, !.newfp = new_hash,
                   !.tags = merged, !.new_tags = new_tags, !.mem = index]
       IN
       IF Collides(new_hash, commit_hash, index) THEN
         /\ op' = Finished(o, "StorageConflict", FALSE)
         /\ UNCHANGED <<index, indexOk, store, logs, out, origin, failed>>
       ELSE IF new_hash = commit_hash THEN
         /\ save_index(Retagged(index, commit_hash, new_tags), outcome)
         /\ op' = Finished(o, IF outcome = "written" THEN "ok" ELSE "IOFailure", FALSE)
         /\ outcome = "written" \/ failed < MaxFailed
         /\ failed' = IF outcome = "written" THEN failed ELSE failed + 1
         /\ UNCHANGED <<store, logs, out, origin>>
       ELSE IF new_hash \in DOMAIN store THEN
         /\ op' = Finished(o, "StorageConflict", FALSE)
         /\ UNCHANGED <<index, indexOk, store, logs, out, origin, failed>>
       ELSE IF commit_hash \notin DOMAIN store THEN
         /\ op' = Finished(o, "MoveFailed", FALSE)
         /\ UNCHANGED <<index, indexOk, store, logs, out, origin, failed>>
       ELSE
         /\ outcome = "written"
         /\ store' = MoveDir(store, commit_hash, new_hash)
         /\ origin' = IF commit_hash \in DOMAIN origin
                      THEN MoveDir(origin, commit_hash, new_hash) ELSE origin
         /\ op' = [o EXCEPT !.pc = "add_moved"]
         /\ UNCHANGED <<index, indexOk, logs, out, failed>>

\* after the move: the new entry, del of the old one, save_index
AddSave(outcome) ==
  /\ op.pc = "add_moved"
  /\ save_index(WithoutEntry(WithEntry(op.mem, op.newfp,
                                       MovedEntry(op.mem[op.fp], op.tags, op.newfp)),
                             op.fp),
                outcome)
  /\ op' = Finished(op, IF outcome = "written" THEN "ok" ELSE "IOFailure", FALSE)
  /\ outcome = "written" \/ failed < MaxFailed
  /\ failed' = IF outcome = "written" THEN failed ELSE failed + 1
  /\ UNCHANGED <<store, logs, out, origin>>

Add(S) ==
  \/ /\ op.pc = "idle"
     /\ \E h \in HashArgs, new_tags \in S.addTags, outcome \in SaveOutcomes :
          AddBegin(h, new_tags, outcome)
  \/ \E outcome \in SaveOutcomes : AddSave(outcome)

(* ------------------------------ burn ------------------------------------- *)
\* the loop over the hashes: rmtree and index.pop for each one whose directory
\* exists.  `failAt` is the iteration in which rmtree raises (0: none), `left`
\* the files it has not removed by then.  The result is the store directories,
\* the index in memory, and whether the loop ran to its end.
RECURSIVE BurnLoop(_, _, _, _, _, _)
BurnLoop(hashes, i, st, mem, failAt, left) ==
  IF i > Len(hashes) THEN [store |-> st, mem |-> mem, raised |-> FALSE]
  ELSE IF hashes[i] \notin DOMAIN st
    THEN BurnLoop(hashes, i + 1, st, mem, failAt, left)
  ELSE IF i = failAt
    THEN [store |-> [st EXCEPT ![hashes[i]] = Remove(@, DOMAIN @ \ left)],
          mem |-> mem, raised |-> TRUE]
  ELSE BurnLoop(hashes, i + 1, WithoutDir(st, hashes[i]), WithoutEntry(mem, hashes[i]),
                failAt, left)

\* rack burn <hash> ...: load_index, the loop, save_index.  An exception of
\* rmtree leaves burn() before save_index.
BurnHashes(hashes, failAt, left, outcome) ==
  /\ op.pc = "idle"
  /\ hashes # <<>>
  /\ IF ~indexOk THEN
       /\ failAt = 0 /\ outcome = "written"
       /\ Refused("burn", <<>>, "IndexUnreadable")
     ELSE
       LET r == BurnLoop(hashes, 1, store, index, failAt, left)
           o == [Idle EXCEPT !.cmd = "burn", !.asked = {hashes[i] : i \in 1..Len(hashes)}]
       IN
       /\ failAt = 0 \/ r.raised
       /\ store' = r.store
       /\ origin' = [d \in {k \in DOMAIN origin :
                              k \in DOMAIN r.store /\ r.store[k] = store[k]} |-> origin[d]]
       /\ IF r.raised
          THEN /\ outcome = "written"
               /\ failed < MaxFailed
               /\ failed' = failed + 1
               /\ UNCHANGED <<index, indexOk>>
               /\ op' = Finished(o, "IOFailure", FALSE)
          ELSE /\ outcome = "written" \/ failed < MaxFailed
               /\ failed' = IF outcome = "written" THEN failed ELSE failed + 1
               /\ save_index(r.mem, outcome)
               /\ op' = Finished(o, IF outcome = "written" THEN "ok" ELSE "IOFailure", FALSE)
       /\ UNCHANGED <<logs, out>>

HashLists == UNION {[1..n -> HashArgs] : n \in 1..MaxBurn}

Burn ==
  /\ op.pc = "idle"
  /\ \E hashes \in HashLists :
       \/ \E outcome \in SaveOutcomes : BurnHashes(hashes, 0, {}, outcome)
       \/ /\ failed < MaxFailed
          /\ \E failAt \in 1..Len(hashes) : \E left \in RmtreeLeaves(hashes[failAt]) :
               BurnHashes(hashes, failAt, left, "written")

(* ------------------------------ specifications --------------------------- *)
Commands(S) == Store(S) \/ Dump(S) \/ Add(S) \/ Burn \/ Return

\* all commands, over the tags that make fingerprints meet
Next == Commands(AllCommands)
Spec == InitWith({SourceTree({PathA})}) /\ [][Next]_vars

\* all commands, over every source tree and configuration, one commit at a time
NextFiles1 == Commands(AllFiles)
SpecFiles == InitWith(SourceTrees) /\ [][NextFiles1]_vars
NextSources == Commands(AllSources)
SpecSources == InitWith({SourceTree({PathA})}) /\ [][NextSources]_vars
\* hash_commit called on a label and a dict, and called again on a dict of
\* the same items whatever their insertion order
HashCall(items) ==
  /\ op.pc \in {"hash", "hashed"}
  /\ op.count < 2
  /\ op' = [op EXCEPT !.pc = "hashed", !.items = items, !.count = @ + 1,
                      !.newfp = op.fp, !.fp = hash_items(op.msg, items)]
  /\ UNCHANGED <<index, indexOk, store, logs, out, origin, failed>>
NextHash == \E items \in Reordered(op.items) : HashCall(items)
InitHash ==
  /\ index = EmptyMap /\ indexOk = TRUE /\ store = EmptyMap /\ logs = EmptyTree
  /\ out = NoDir /\ origin = EmptyMap /\ failed = 0
  /\ \E msg \in HashLabels, items \in ItemLists :
       op = [Idle EXCEPT !.pc = "hash", !.cmd = "hash", !.msg = msg, !.items = items]
SpecHash == InitHash /\ [][NextHash]_vars
NextTags == Commands(AllTags)
SpecTags == InitWith({SourceTree({PathA})}) /\ [][NextTags]_vars

(* ------------------------------ properties ------------------------------- *)
\* no command is running
AtPrompt == op.pc \in {"idle", "done"}

\* C1: after commands that all ran to completion successfully, the keys of the
\* index are the directories under the store root, and each entry's path is
\* the directory of its key.
C1_IndexMatchesStore ==
  (AtPrompt /\ failed = 0) =>
    /\ indexOk
    /\ DOMAIN index = DOMAIN store
    /\ \A k \in DOMAIN index : index[k].path = k

\* two commits are stored, one of them renamed by add, and nothing has failed
C1_Witness ==
  /\ op.pc = "done" /\ op.cmd = "add" /\ op.result = "ok" /\ op.newfp # op.fp
  /\ failed = 0
  /\ Cardinality(DOMAIN index) = 2

\* C2: a store interrupted inside its loop over the files leaves no index
\* entry and no directory for its fingerprint.
C2_InterruptLeavesNothing ==
  [][(op.pc = "store_loop" /\ op'.pc = "done" /\ op'.result = "UserAborted")
       => (op.fp \notin DOMAIN index' /\ op.fp \notin DOMAIN store')]_vars

\* C3: a store that fails after the duplicate check (an I/O error, an invalid
\* compress_mode) leaves no directory for its fingerprint, and the index and
\* the source directory as they were.
C3_FailureRollsBack ==
  [][(op'.cmd = "store" /\ op'.pc = "done" /\ op'.result \in {"IOFailure", "ConfigError"})
       => (op'.fp \notin DOMAIN store' /\ index' = index /\ indexOk' = indexOk
           /\ logs' = logs)]_vars

\* the payload of directory d holds every file that its store included
PayloadHolds(d) ==
  /\ d \in DOMAIN store
  /\ d \in DOMAIN origin
  /\ LET g == origin[d]
     IN IF g.mode = "files"
        THEN \A f \in DOMAIN g.files :
               LET dst == (IF g.preserve THEN f ELSE BaseName(f)) \o ZstExt
               IN dst \in DOMAIN store[d] /\ CanDecompress(store[d][dst])
        ELSE /\ TarZstName \in DOMAIN store[d]
             /\ CanDecompress(store[d][TarZstName])
             /\ Len(store[d][TarZstName].members) = Cardinality(DOMAIN g.files)

\* C4: while store runs and when it has returned, the index holds the new
\* fingerprint only if every included file has been compressed into storage.
C4_IndexAfterPayload ==
  (op.cmd = "store" /\ op.result \in {"none", "ok"} /\ op.pc # "idle") =>
    /\ op.pc \in {"store_loop", "store_tar", "store_save"} => op.fp \notin DOMAIN index
    /\ op.fp \in DOMAIN index => (op.todo = {} /\ PayloadHolds(op.fp))

\* a store of two files has written its index entry
C4_Witness ==
  /\ op.cmd = "store" /\ op.pc = "store_clear"
  /\ op.fp \in DOMAIN index
  /\ op.count = 2

\* C5: a store whose fingerprint is in the index fails as a duplicate and
\* changes neither the index nor any directory under the store root.
C5_DuplicateRefused ==
  [][(op.pc = "idle" /\ op'.cmd = "store" /\ op'.fp \in DOMAIN index)
       => (op'.pc = "done" /\ op'.result = "DuplicateCommit"
           /\ index' = index /\ indexOk' = indexOk /\ store' = store)]_vars

\* a store was refused as a duplicate
C5_Witness ==
  /\ op.pc = "done" /\ op.cmd = "store" /\ op.result = "DuplicateCommit"
  /\ op.fp \in DOMAIN index

\* C6: a store whose fingerprint is not in the index but has a directory fails
\* with a storage conflict and leaves the directory and the index alone.
C6_ConflictRefused ==
  [][(op.pc = "idle" /\ op'.cmd = "store" /\ indexOk
      /\ op'.fp \notin DOMAIN index /\ op'.fp \in DOMAIN store)
       => (op'.pc = "done" /\ op'.result = "StorageConflict"
           /\ index' = index /\ store' = store)]_vars

\* C7: a dump, into an empty directory, of a commit stored per file with its
\* structure preserved restores every included file with its content.
C7_RoundTrip ==
  (op.pc = "done" /\ op.cmd = "dump" /\ op.target = "out"
   /\ op.want.mode = "files" /\ op.want.preserve
   /\ op.result \notin {"IOFailure", "UserAborted"}) =>
    /\ op.result = "ok"
    /\ \A f \in DOMAIN op.want.files :
         f \in DOMAIN out.files /\ out.files[f] = op.want.files[f]

\* the index keys, among the old and the new fingerprint of the running add,
\* that name the directory holding the commit's data
Referring == {k \in {op.fp, op.newfp} : k \in DOMAIN index /\ k \in DOMAIN store}

\* C8: from the rename on, also when add fails while it writes the index, the
\* index holds exactly one entry whose key names the directory of the data.
C8_OneReference ==
  (op.cmd = "add" /\ op.newfp # op.fp /\ op.pc \in {"add_moved", "done"}
   /\ op.result \in {"none", "ok", "IOFailure"}) =>
    Cardinality(Referring) = 1

\* C9: an add whose merged tags derive another fingerprint that is a key of
\* the index fails with a conflict and changes neither index nor directories.
C9_CollisionRefused ==
  [][(op.pc = "idle" /\ op'.cmd = "add" /\ op'.fp \in DOMAIN index
      /\ op'.newfp # op'.fp /\ op'.newfp \in DOMAIN index)
       => (op'.pc = "done" /\ op'.result = "StorageConflict"
           /\ index' = index /\ indexOk' = indexOk /\ store' = store)]_vars

\* an add was refused because its new fingerprint is a key of the index
C9_Witness ==
  /\ op.pc = "done" /\ op.cmd = "add" /\ op.result = "StorageConflict"
  /\ op.newfp # op.fp
  /\ {op.fp, op.newfp} \subseteq DOMAIN index

\* C10: an add whose merged tags derive the same fingerprint keeps the key,
\* the directories and every field of the entry but the tags.
C10_SameHashFrame ==
  [][(op.pc = "idle" /\ op'.cmd = "add" /\ op'.fp \in DOMAIN index
      /\ op'.newfp = op'.fp /\ op'.result = "ok")
       => (/\ store' = store
           /\ DOMAIN index' = DOMAIN index
           /\ \A k \in DOMAIN index :
                index'[k] = [index[k] EXCEPT !.tags = index'[k].tags]
           /\ \A k \in DOMAIN index \ {op'.fp} : index'[k] = index[k])]_vars

\* an add that left the fingerprint as it was has returned
C10_Witness ==
  /\ op.pc = "done" /\ op.cmd = "add" /\ op.result = "ok" /\ op.newfp = op.fp
  /\ op.fp \in DOMAIN index

\* C11: a retag that changes the fingerprint from F to F' renames the
\* directory F to F' with its contents and leaves the other directories alone;
\* when it has succeeded the index has no entry under F and one under F' with
\* the label, date, size, file count and source directory of the old entry,
\* the merged tags and the path of the directory F'; the other entries and the
\* directories are as they were.
C11_RetagFrame ==
  [][/\ (op.pc = "idle" /\ op'.pc = "add_moved") =>
          /\ op'.fp \in DOMAIN store /\ op'.newfp \notin DOMAIN store
          /\ DOMAIN store' = (DOMAIN store \ {op'.fp}) \cup {op'.newfp}
          /\ store'[op'.newfp] = store[op'.fp]
          /\ \A d \in DOMAIN store \ {op'.fp} : store'[d] = store[d]
     /\ (op.pc = "add_moved" /\ op'.pc = "done" /\ op'.result = "ok") =>
          /\ store' = store
          /\ DOMAIN index' = (DOMAIN index \ {op.fp}) \cup {op.newfp}
          /\ op.fp \notin DOMAIN index'
          /\ index'[op.newfp] = [msg |-> index[op.fp].msg, date |-> index[op.fp].date,
                                 size_bytes |-> index[op.fp].size_bytes,
                                 files |-> index[op.fp].files,
                                 input_dir |-> index[op.fp].input_dir,
                                 tags |-> op.tags, path |-> op.newfp]
          /\ \A k \in DOMAIN index \ {op.fp} : index'[k] = index[k]]_vars

\* a retag has moved a commit to a new fingerprint beside another commit
C11_Witness ==
  /\ op.pc = "done" /\ op.cmd = "add" /\ op.result = "ok" /\ op.newfp # op.fp
  /\ op.newfp \in DOMAIN index /\ op.newfp \in DOMAIN store
  /\ \E k \in DOMAIN index : k # op.newfp

\* C12: a retag that succeeds leaves the commit with the tags of the old
\* entry merged with the new ones: the keys of both, every new key with its
\* new value, every other key with its old value; no key is lost.
C12_TagMerge ==
  [][(op.pc \in {"idle", "add_moved"} /\ op'.pc = "done" /\ op'.cmd = "add"
      /\ op'.result = "ok") =>
       LET T == index[op'.fp].tags
           N == op'.new_tags
           R == index'[op'.newfp].tags
       IN /\ DOMAIN R = DOMAIN T \cup DOMAIN N
          /\ \A k \in DOMAIN N : R[k] = N[k]
          /\ \A k \in DOMAIN T \ DOMAIN N : R[k] = T[k]
          /\ DOMAIN T \subseteq DOMAIN R]_vars

\* a retag has replaced the value of a key and kept another key
C12_Witness ==
  /\ op.pc = "done" /\ op.cmd = "add" /\ op.result = "ok"
  /\ op.new_tags = TagB2
  /\ op.newfp \in DOMAIN index
  /\ index[op.newfp].tags = Merge(TagB1, Merge(TagC2, TagB2))

\* C13: when the purge of a dump has ended, either the index entry and the
\* directory of the commit are both gone, or the failure is reported and the
\* index holds the entry exactly when the directory still exists.
C13_PurgeConsistent ==
  [][(op.pc = "dump_purge" /\ op'.pc = "done") =>
       \/ /\ ~op'.warn
          /\ op.fp \notin DOMAIN index' /\ op.fp \notin DOMAIN store'
       \/ /\ op'.warn
          /\ (op.fp \in DOMAIN index' <=> op.fp \in DOMAIN store')]_vars

\* every member of the stored commit `dir` is a file of the target directory
RestoredAll(dir, target) ==
  IF TarZstName \in DOMAIN dir
  THEN \A i \in 1..Len(Decompress(dir[TarZstName]).members) :
         Decompress(dir[TarZstName]).members[i].name \in DOMAIN target.files
  ELSE \A src \in {p \in DOMAIN dir : EndsWith(p, ZstExt)} :
         /\ DropLast(src, 4) \in DOMAIN target.files
         /\ target.files[DropLast(src, 4)] = Decompress(dir[src])

\* C14: a dump reaches its purge only when every member has been restored,
\* and no step of a dump before the purge changes the index or the store: a
\* restore that fails or is interrupted leaves the commit as it was.
C14_PurgeAfterRestore ==
  [][/\ (op'.cmd = "dump" /\ op.pc # "dump_purge") =>
          (store' = store /\ index' = index /\ indexOk' = indexOk)
     /\ (op'.pc = "dump_purge") =>
          (op'.fp \in DOMAIN store' /\ RestoredAll(store'[op'.fp], out'))]_vars

\* a dump with purge was interrupted after it had restored a file: the
\* commit is still stored
C14_Witness ==
  /\ op.pc = "done" /\ op.cmd = "dump" /\ op.remove
  /\ op.result \in {"IOFailure", "UserAborted"}
  /\ \E f \in DOMAIN out.files : out.files[f] # EmptyFile
  /\ op.fp \in DOMAIN index /\ op.fp \in DOMAIN store

\* C15: a dump of a fingerprint that the index does not hold fails as not
\* found, and one whose entry has no directory fails as storage missing; both
\* leave the index, the store, the source and the target as they were, and the
\* target directory is not created.
C15_DumpLookupErrors ==
  [][(op.pc = "idle" /\ op'.cmd = "dump" /\ indexOk
      /\ (op'.fp \notin DOMAIN index \/ op'.fp \notin DOMAIN store)) =>
       /\ op'.pc = "done"
       /\ op'.result = (IF op'.fp \notin DOMAIN index THEN "NotFound" ELSE "StorageMissing")
       /\ index' = index /\ indexOk' = indexOk /\ store' = store
       /\ logs' = logs /\ out' = out /\ ~out'.exists]_vars

\* a dump found the entry of its fingerprint but no directory
C15_Witness ==
  /\ op.pc = "done" /\ op.cmd = "dump" /\ op.result = "StorageMissing"
  /\ op.fp \in DOMAIN index /\ op.fp \notin DOMAIN store
  /\ ~out.exists

\* the compressed output of directory `dir` holds source file f with content c
InOutput(dir, f, c, cfg) ==
  IF cfg.compress_mode = "files"
  THEN /\ FileDst(f, cfg) \in DOMAIN dir
       /\ CanDecompress(dir[FileDst(f, cfg)])
       /\ Decompress(dir[FileDst(f, cfg)]) = c
  ELSE /\ TarZstName \in DOMAIN dir
       /\ \E i \in 1..Len(Decompress(dir[TarZstName]).members) :
            Decompress(dir[TarZstName]).members[i] = [name |-> ArcName(f, cfg), file |-> c]

\* C16: when store persists its entry, a source file that an exclude pattern
\* matches is not in the compressed output, every other source file is in it,
\* and the entry's file count is the number of those other files.
C16_Exclusion ==
  [][(op.pc = "store_save" /\ op'.cmd = "store" /\ op'.result \in {"none", "ok"}) =>
       /\ \A f \in DOMAIN SourceOf(op.src) :
            IF \E i \in 1..Len(op.cfg.exclude) : fnmatch(f, op.cfg.exclude[i])
            THEN ~InOutput(store'[op.fp], f, SourceOf(op.src)[f], op.cfg)
            ELSE InOutput(store'[op.fp], f, SourceOf(op.src)[f], op.cfg)
       /\ index'[op.fp].files =
            Cardinality({f \in DOMAIN SourceOf(op.src) :
                           ~\E i \in 1..Len(op.cfg.exclude) : fnmatch(f, op.cfg.exclude[i])})]_vars

\* C17: store changes the source directory only in its clearing step, after
\* the entry of the commit has been persisted, and when store has reported
\* success the entry and the directory of the commit exist, whether or not the
\* clearing succeeded and whichever directory was the source.
C17_ClearKeepsCommit ==
  [][/\ (op.cmd = "store" /\ logs' # logs) =>
          (op.pc = "store_clear" /\ indexOk /\ op.fp \in DOMAIN index)
     /\ (op'.cmd = "store" /\ op'.pc = "done" /\ op'.result = "ok") =>
          (indexOk' /\ op'.fp \in DOMAIN index' /\ op'.fp \in DOMAIN store')]_vars

\* C18: two calls of hash_commit on the same label and on dicts of the same
\* items give the same fingerprint, whatever the insertion order of the items;
\* it is the fingerprint of the mapping.
C18_HashDeterministic ==
  op.pc = "hashed" =>
    /\ op.count = 2 => op.fp = op.newfp
    /\ \A l \in Reordered(op.items) : hash_items(op.msg, l) = op.fp
    /\ op.fp = hash_commit(op.msg, AsMap(op.items))

\* hash_commit was called twice on three items inserted in different orders
C18_Witness ==
  /\ op.pc = "hashed" /\ op.count = 2
  /\ Len(op.items) = 3
  /\ op.items # SortedItems(op.items)

\* C19: when burn has ended, completed or failed, the index holds the entry
\* of every fingerprint it was asked to destroy exactly when the directory of
\* that fingerprint still exists.
C19_BurnConsistent ==
  (op.pc = "done" /\ op.cmd = "burn" /\ op.result \in {"ok", "IOFailure"}) =>
    \A h \in op.asked : (indexOk /\ h \in DOMAIN index) <=> h \in DOMAIN store

\* C20: after a successful per-file store the files of the commit directory
\* correspond one to one to the files the store included: each included file
\* has its own compressed member, there is no other member, and the recorded
\* file count is the number of members.
C20_MembersOneToOne ==
  (op.pc = "done" /\ op.cmd = "store" /\ op.result = "ok"
   /\ op.fp \in DOMAIN store /\ op.fp \in DOMAIN index /\ op.fp \in DOMAIN origin
   /\ origin[op.fp].mode = "files") =>
    LET g == origin[op.fp]
        dir == store[op.fp]
        dst(f) == (IF g.preserve THEN f ELSE BaseName(f)) \o ZstExt
    IN /\ \A f \in DOMAIN g.files :
            dst(f) \in DOMAIN dir /\ dir[dst(f)] = Compress(g.files[f])
       /\ \A m \in DOMAIN dir : \E f \in DOMAIN g.files : m = dst(f)
       /\ Cardinality(DOMAIN dir) = Cardinality(DOMAIN g.files)
       /\ index[op.fp].files = Cardinality(DOMAIN dir)

\* C21: dump restores a commit by the layout it was stored with: the
\* per-file branch for a commit that store wrote per file, whatever the names
\* of its files, and the archive branch for one that store wrote packed.
C21_DumpLayout ==
  [][(op.pc = "idle" /\ op'.cmd = "dump" /\ op'.branch # "none"
      /\ op'.want.mode \in {"files", "folder"}) =>
       op'.branch = op'.want.mode]_vars

\* C22: the string that hash_commit hashes is injective: a label and a tag
\* mapping that give the string of another call are the label and the tag
\* mapping of that call.
C22_KeyInjective ==
  op.pc = "hashed" =>
    \A msg \in HashLabels, l \in ItemLists :
      hash_items(msg, l) = op.fp => (msg = op.msg /\ AsMap(l) = AsMap(op.items))
====
